---- MODULE Spec2Model ----
(***************************************************************************)
(* Transport and clip scheduler of the audio-streams editor.               *)
(*                                                                         *)
(* The model follows src/src/lib/AudioEngine.ts (class AudioEngine) and    *)
(* its host, the AudioEngineProvider of src/app/components/track/Track.tsx *)
(* with the transport handlers of src/src/components/MainAudioView.tsx.    *)
(*                                                                         *)
(* Time.  The audio clock (audioContext.currentTime) and every value in    *)
(* seconds is an integer number of ticks; one sample period is             *)
(* TicksPerSample ticks.  The audio clock only takes values that are whole *)
(* samples (it advances by render quanta of 128 samples), clip times may   *)
(* fall between samples, so secondsToSamples really rounds.                *)
(*                                                                         *)
(* Scheduling.  JavaScript runs one task at a time: every action below is  *)
(* one task together with the microtasks it queues (the continuation of an *)
(* async function whose awaited promise is already settled).  A promise    *)
(* that waits for the device (audioContext.resume()) is a pending call in  *)
(* `calls` that a later task settles.  React 18 commits an update from a   *)
(* discrete event (click, key) together with its effects in the task of    *)
(* the event; an update dispatched from an animation frame or a mouse move *)
(* is committed by a later task (HostCommit).                              *)
(***************************************************************************)
EXTENDS Integers, Sequences, FiniteSets, TLC

\* ---------------------------------------------------------------- bounds
TicksPerSample == 2
MaxClock == 3200
MaxBuilds == 3
MaxCalls == 2
MaxIntents == 3

\* ------------------------------------------------------ program constants
SeekThreshold == 1000
DebounceSamples == 441

\* ------------------------------------------------------------ input sets
\* frame / task spacing, in samples (multiples of the 128-sample quantum)
ClockSteps == {640, 1280}
\* positions the user can scrub to, in samples
SeekTargets == {0, 1500}
\* loop region of the engine state, in samples
LoopStarts == {640}
LoopEnds == {2200}

Tracks == {"t1", "t2"}
\* the tracks as ADD_TRACK makes them: volume 0.8, pan 0, not muted, not solo
initialTracks ==
  [t \in Tracks |-> [volume |-> 80, pan |-> 0, muted |-> FALSE, solo |-> FALSE]]
\* values of the pan slider of t1 and of the volume slider of t2
PanInputs == {0, 100}
VolumeInputs == {50, 80}
ClipIds == {"c1", "c2", "c3"}
\* the project snapshot: clip times in samples; c1 is short and early, c2
\* lies inside the loop region, c3 is still being decoded.  c1 starts half
\* a sample late when the resolution allows it, and its duration was
\* shortened below the length of its buffer.
Half == TicksPerSample \div 2
allClips ==
  [c \in ClipIds |->
     CASE c = "c1" -> [trackId |-> "t1", startTime |-> 640 * TicksPerSample + Half,
                       duration |-> 300 * TicksPerSample, audioBuffer |-> TRUE,
                       bufferLength |-> 500 * TicksPerSample]
       [] c = "c2" -> [trackId |-> "t1", startTime |-> 1500 * TicksPerSample,
                       duration |-> 2000 * TicksPerSample, audioBuffer |-> TRUE,
                       bufferLength |-> 2000 * TicksPerSample]
       [] c = "c3" -> [trackId |-> "t2", startTime |-> 0,
                       duration |-> 3000 * TicksPerSample, audioBuffer |-> FALSE,
                       bufferLength |-> 0]]
\* audioBuffer.duration: the native length of the decoded buffer of a clip
bufferDuration(c) == allClips[c].bufferLength
clipIdsOf(t) == {c \in ClipIds : allClips[c].trackId = t}

Abs(x) == IF x < 0 THEN -x ELSE x
Max(a, b) == IF a >= b THEN a ELSE b

\* ----------------------------------------------------------- conversions
\* secondsToSamples that leaves out the sample rate
secondsToSamplesUnscaled(seconds) == seconds

\* Math.round(seconds * sampleRate): round half up
secondsToSamples(seconds) == (2 * seconds + TicksPerSample) \div (2 * TicksPerSample)
samplesToSeconds(samples) == samples * TicksPerSample

\* ------------------------------------------------------ the time utility
\* (src/app/utils/audioUtils.ts).  A JavaScript number is NaN, an infinity
\* or a finite value; finite times are whole multiples of 1 / UnitsPerSecond
\* seconds.
UnitsPerSecond == 200
NaN == [k |-> "nan", v |-> 0]
Infinity == [k |-> "inf", v |-> 1]
NegInfinity == [k |-> "inf", v |-> -1]
Num(n) == [k |-> "num", v |-> n]
isNaN(x) == x.k = "nan"
isFinite(x) == x.k = "num"
Sign(x) == IF x.v < 0 THEN -1 ELSE 1

\* x <= 0 and x > 0: every comparison with NaN is false
LeqZero(x) == x.k # "nan" /\ x.v <= 0
GtZero(x) == x.k # "nan" /\ x.v > 0

\* a * b
Times(a, b) ==
  CASE isNaN(a) \/ isNaN(b) -> NaN
    [] isFinite(a) /\ isFinite(b) -> Num(a.v * b.v)
    [] a.v = 0 \/ b.v = 0 -> NaN
    [] OTHER -> [k |-> "inf", v |-> Sign(a) * Sign(b)]

\* a + b
Plus(a, b) ==
  CASE isNaN(a) \/ isNaN(b) -> NaN
    [] isFinite(a) /\ isFinite(b) -> Num(a.v + b.v)
    [] isFinite(a) -> b
    [] isFinite(b) -> a
    [] OTHER -> IF a.v = b.v THEN a ELSE NaN

\* a / b for the cases where the quotient is not finite, or zero
Quotient(a, b) ==
  CASE isNaN(a) \/ isNaN(b) -> NaN
    [] ~isFinite(a) /\ ~isFinite(b) -> NaN
    [] ~isFinite(a) -> [k |-> "inf", v |-> Sign(a) * Sign(b)]
    [] ~isFinite(b) -> Num(0)
    [] b.v = 0 -> IF a.v = 0 THEN NaN ELSE [k |-> "inf", v |-> Sign(a)]
    [] OTHER -> Num(0)

\* a / b, the finite quotient rounded to the resolution of the model
Over(a, b) ==
  IF isFinite(a) /\ isFinite(b) /\ b.v # 0 THEN Num(a.v \div b.v) ELSE Quotient(a, b)

\* Math.round(a / b): the nearest integer, a half rounds up
RoundOver(a, b) ==
  IF isFinite(a) /\ isFinite(b) /\ b.v # 0
    THEN Num((2 * a.v * Sign(b) + Abs(b.v)) \div (2 * Abs(b.v)))
    ELSE Quotient(a, b)

\* GridSize.SIXTEENTH
SIXTEENTH == 16
\* the bpm and the grid duration (0.125 s) the utility falls back to
FallbackBpm == 120
FallbackGridDuration == UnitsPerSecond \div 8

getGridDuration(bpm, gridSize) ==
  LET bpm1 == IF isNaN(bpm) \/ LeqZero(bpm) THEN Num(FallbackBpm) ELSE bpm
      gridSize1 == IF isNaN(gridSize) \/ LeqZero(gridSize) THEN Num(SIXTEENTH) ELSE gridSize
      beatDuration == Over(Num(60 * UnitsPerSecond), bpm1)
      gridDuration == Over(Times(beatDuration, Num(4)), gridSize1)
  IN IF isNaN(gridDuration) \/ LeqZero(gridDuration)
       THEN Num(FallbackGridDuration) ELSE gridDuration

\* snapToGrid that rounds the time up to the next grid line after it
snapToGridNextLine(time, bpm, gridSize) ==
  IF isNaN(time) THEN Num(0)
  ELSE LET gridDuration == getGridDuration(bpm, gridSize)
       IN IF LeqZero(gridDuration) THEN time
          ELSE LET snapped == Times(Plus(Over(time, gridDuration), Num(1)), gridDuration)
               IN IF isNaN(snapped) THEN time ELSE snapped

\* snapToGrid that returns the time it is given
snapToGridKeepsTime(time, bpm, gridSize) ==
  IF isNaN(time) THEN Num(0) ELSE time

snapToGrid(time, bpm, gridSize) ==
  IF isNaN(time) THEN Num(0)
  ELSE LET gridDuration == getGridDuration(bpm, gridSize)
       IN IF LeqZero(gridDuration) THEN time
          ELSE LET snapped == Times(RoundOver(time, gridDuration), gridDuration)
               IN IF isNaN(snapped) THEN time ELSE snapped

moveByGrid(time, gridUnits, bpm, gridSize) ==
  Plus(time, Times(gridUnits, getGridDuration(bpm, gridSize)))

pixelsToTime(pixels, pixelsPerSecond) == Over(pixels, pixelsPerSecond)

timeToPixels(time, pixelsPerSecond) == Times(time, pixelsPerSecond)

\* samplesToSeconds and secondsToSamples of the utility take the sample rate
samplesToSecondsAt(samples, sampleRate) == Over(samples, sampleRate)

secondsToSamplesAt(seconds, sampleRate) == Times(seconds, sampleRate)

VARIABLES
  now,                \* audioContext.currentTime, in ticks
  audioContext,       \* "none" (null), "suspended", "running"
  mainGainNode,       \* TRUE when the master gain exists
  trackNodes,         \* track id -> set of clip ids registered in clipNodes
  sources,            \* build -> clip -> [st: "none" | "playing" | "stopped" | "ended"
                      \*                       | "cut" (stopped, ended event delivered),
                      \*                   endAt: when a playing source runs out]
  nBuilds,            \* number of mixer builds so far; the current one
  rafId,              \* "null", "live" (a pending frame), "spent" (fired)
  frames,             \* animation-frame callbacks pending in the browser
  timers,             \* pending setTimeout callbacks: earliest firing time
  calls,              \* async calls waiting for audioContext.resume()
  startTime,
  pausedAtSamples,
  lastUpdateSamples,
  state,              \* the engine's _state snapshot
  app,                \* the host container's state.audioEngine
  stale,              \* the host state changed since the effects last ran
  effPlaying,         \* isPlaying seen by the last run of the play effect
  intents,            \* user intents dispatched so far
  loopStartSamples,
  loopEndSamples,
  \* ----- observation variables
  out,                \* what the last task reported (report: the last report;
                      \* polled: the polled position it reported, and the time
                      \* of the wrap then in force), rebuilt and returned, the
                      \* sources whose stop() threw and was ignored (caught),
                      \* and whether an exception left the engine (raised)
  lastWrap,           \* the loop wrap still in force, or none
  lastSeek,           \* the detected external seek still in force, or none
  lastHalt,           \* the pause / stop / region end still in force
  seekWindow,         \* the debounce window: the positions whose delivery was
                      \* detected as a seek while a restart was already queued,
                      \* and the restarts carried out
  hostTracks,         \* the host's state.project.tracks: track id -> [volume, pan,
                      \* muted], in hundredths
  engineProject,      \* the engine's _project.tracks, as updateState got them
  trackGraph,         \* track id -> the gain and pan values of the nodes in
                      \* the engine's trackNodes map
  connected,          \* the track nodes connected to the master gain: the
                      \* build that made them, and the track
  sought,             \* the position of a seek issued while not playing, still
                      \* in force; whether play was pressed after it, and the
                      \* time that play started the sources
  \* ----- the time utility
  util,               \* the last call of a utility function: name, arguments, result
  \* ----- the container's project state
  project,            \* tracks: track id -> its clipIds; duration: project.duration
  clips,              \* clip id -> [trackId, startTime, duration]; trackId 0 is ''
  decoding,           \* files being decoded: the trackId of each request and
                      \* the upload control it came from
  messageHandlers,    \* the handlers registered with the decoder, in the order of
                      \* the Map: the hoveredTrackId each one's handleAudioDecoded
                      \* closes over
  creating,           \* the dispatches handleAudioDecoded has still to make
  selectedClipId,     \* ui.selectedClipId; 0 is null
  nextId,             \* ids generated so far, plus one
  utilsModule,        \* the audioUtils module the container's import resolves to
  lastAction          \* the reducer action applied last, and the clips it removed

transportVars ==
  <<now, audioContext, mainGainNode, trackNodes, sources, nBuilds, rafId,
    frames, timers, calls, startTime, pausedAtSamples, lastUpdateSamples,
    state, app, stale, effPlaying, intents, loopStartSamples, loopEndSamples,
    out, lastWrap, lastSeek, lastHalt, seekWindow, sought,
    hostTracks, engineProject, trackGraph, connected>>

projectVars ==
  <<project, clips, decoding, messageHandlers, creating, selectedClipId, nextId,
    utilsModule, lastAction>>

vars == <<transportVars, util, projectVars>>

\* observations: nothing reported, rebuilt or returned in this task
NoPlan == [c \in {} |-> [when |-> 0, offset |-> 0]]
NoBuild == [cause |-> "none", pos |-> 0, clips |-> {}, plan |-> NoPlan]
NoCall == [cause |-> "none", settled |-> "none", started |-> FALSE, value |-> "none"]
NoPoll == [samples |-> -1, wrapAt |-> -1]
NoEnded == [build |-> 0, clip |-> "none"]
NoOut == [report |-> -1, polled |-> NoPoll, build |-> NoBuild, call |-> NoCall,
          caught |-> {}, raised |-> FALSE, ended |-> NoEnded]
NoSource == [st |-> "none", endAt |-> 0]
NoEvent == [at |-> -1]
NoSeek == [at |-> -1, pos |-> 0, due |-> 0, restartAt |-> -1]
NoHalt == [kind |-> "none", pos |-> 0, build |-> 0]
NoWindow == [positions |-> {}, restarts |-> 0]
NoSought == [pos |-> -1, played |-> FALSE, at |-> -1]
NoNodes == [gain |-> 0, pan |-> 0]

\* the whole state as one record, so that the statements of a handler can
\* be composed in program order
World ==
  [now |-> now, audioContext |-> audioContext, mainGainNode |-> mainGainNode,
   trackNodes |-> trackNodes, sources |-> sources, nBuilds |-> nBuilds,
   rafId |-> rafId, frames |-> frames, timers |-> timers, calls |-> calls,
   startTime |-> startTime, pausedAtSamples |-> pausedAtSamples,
   lastUpdateSamples |-> lastUpdateSamples, state |-> state, app |-> app,
   stale |-> stale, effPlaying |-> effPlaying, intents |-> intents,
   out |-> NoOut, lastWrap |-> lastWrap, lastSeek |-> lastSeek, lastHalt |-> lastHalt,
   seekWindow |-> seekWindow, sought |-> sought,
   hostTracks |-> hostTracks, engineProject |-> engineProject,
   trackGraph |-> trackGraph, connected |-> connected,
   micro |-> "none", ret |-> "none"]

Becomes(w) ==
  /\ now' = w.now
  /\ audioContext' = w.audioContext
  /\ mainGainNode' = w.mainGainNode
  /\ trackNodes' = w.trackNodes
  /\ sources' = w.sources
  /\ nBuilds' = w.nBuilds
  /\ rafId' = w.rafId
  /\ frames' = w.frames
  /\ timers' = w.timers
  /\ calls' = w.calls
  /\ startTime' = w.startTime
  /\ pausedAtSamples' = w.pausedAtSamples
  /\ lastUpdateSamples' = w.lastUpdateSamples
  /\ state' = w.state
  /\ app' = w.app
  /\ stale' = w.stale
  /\ effPlaying' = w.effPlaying
  /\ intents' = w.intents
  /\ out' = w.out
  /\ lastWrap' = w.lastWrap
  /\ lastSeek' = w.lastSeek
  /\ lastHalt' = w.lastHalt
  /\ seekWindow' = w.seekWindow
  /\ sought' = w.sought
  /\ hostTracks' = w.hostTracks
  /\ engineProject' = w.engineProject
  /\ trackGraph' = w.trackGraph
  /\ connected' = w.connected
  /\ UNCHANGED <<loopStartSamples, loopEndSamples>>
  /\ UNCHANGED <<util, projectVars>>

\* ------------------------------------------------------------ the host
\* appReducer, SET_CURRENT_SAMPLES, reached through the engine's callback
onUpdateCurrentSamples(w, samples) ==
  [w EXCEPT !.app.currentSamples = samples,
            !.stale = TRUE,
            !.out.report = samples]

\* an initialisation callback that also writes a gain of 1 into the tracks
onAudioContextInitializedWritesTracks(w) ==
  [w EXCEPT !.app.isInitialized = TRUE, !.stale = TRUE,
            !.hostTracks = [t \in DOMAIN @ |-> [@[t] EXCEPT !.volume = 100]]]

\* appReducer, INITIALIZE_AUDIO_CONTEXT, reached through the engine's callback
onAudioContextInitialized(w) ==
  [w EXCEPT !.app.isInitialized = TRUE, !.stale = TRUE]

\* a cancelAnimationFrame that leaves the callback pending
cancelNothing(w) == w

\* ---------------------------------------------------------- the browser
cancelAnimationFrame(w) ==
  [w EXCEPT !.frames = IF w.rafId = "live" THEN @ - 1 ELSE @]

requestAnimationFrame(w) ==
  [w EXCEPT !.frames = @ + 1, !.rafId = "live"]

\* setTimeout(f, 10): the audio clock may stand still while wall time passes
setTimeout(w) ==
  [w EXCEPT !.timers = Append(@, IF w.audioContext = "running"
                                   THEN w.now + samplesToSeconds(DebounceSamples)
                                   ELSE w.now)]

\* ----------------------------------------------------------- the engine
registered(w) == UNION {w.trackNodes[t] : t \in DOMAIN w.trackNodes}

\* source.stop() on every source of the clipNodes maps; a source that is
\* not playing any more throws, which is ignored
stopSources(w) ==
  [b \in DOMAIN w.sources |->
     [c \in ClipIds |->
        IF b = w.nBuilds /\ c \in registered(w) /\ w.sources[b][c].st = "playing"
          THEN [st |-> "stopped", endAt |-> 0] ELSE w.sources[b][c]]]

\* the sources of the clipNodes maps that have played out, their ended
\* event not delivered yet: source.stop() of such a source throws
finished(w) ==
  {c \in registered(w) : /\ w.sources[w.nBuilds][c].st = "playing"
                         /\ w.sources[w.nBuilds][c].endAt <= w.now}

\* the loop over the clipNodes without the try around source.stop(): the
\* exception of a finished source ends the loop and leaves the engine
stopClipNodesUncaught(w) ==
  IF finished(w) = {} THEN [w EXCEPT !.sources = stopSources(w)]
  ELSE [w EXCEPT !.out.raised = TRUE]

\* trackNodes.forEach(track => track.clipNodes.forEach(clip => try
\* { clip.source.stop() } catch (e) {})): every source is stopped, the
\* exceptions are ignored
stopClipNodes(w) ==
  [w EXCEPT !.sources = stopSources(w),
            !.out.caught = @ \cup finished(w)]

\* stopPlayback without the loop that stops the sources (lines 277-285 left out)
stopPlaybackKeepsSources(w) ==
  LET w1 == IF w.rafId # "null"
              THEN [cancelAnimationFrame(w) EXCEPT !.rafId = "null"]
              ELSE w
  IN IF w1.audioContext = "none" THEN w1
     ELSE [w1 EXCEPT !.pausedAtSamples = w1.state.currentSamples]

stopPlayback(w) ==
  LET w1 == IF w.rafId # "null"
              THEN [cancelAnimationFrame(w) EXCEPT !.rafId = "null"]
              ELSE w
  IN IF w1.audioContext = "none" THEN w1
     ELSE LET w2 == stopClipNodes([w1 EXCEPT !.pausedAtSamples = w1.state.currentSamples])
          IN IF w2.out.raised THEN w2
             ELSE [w2 EXCEPT !.trackNodes = [t \in DOMAIN w1.trackNodes |-> {}]]

\* setupAudioNodes that clears the maps without stopping their sources
setupAudioNodesKeepsSources(w) ==
  IF w.audioContext = "none" \/ ~w.mainGainNode THEN w
  ELSE [w EXCEPT !.trackNodes = [t \in Tracks |-> {}],
                 !.nBuilds = @ + 1]

\* createGainNode: gainNode.gain.value = gainValue
createGainNode(gainValue) == gainValue

\* createStereoPanner: pannerNode.pan.value = clamp(panValue, -1, 1)
createStereoPanner(panValue) ==
  IF panValue < -100 THEN -100 ELSE IF panValue > 100 THEN 100 ELSE panValue

\* a track gain that ignores the mute switch
trackGainIgnoresMute(track) == createGainNode(track.volume)

\* a track gain in which the solo button overrides the mute button
trackGainHonoursSolo(track) ==
  createGainNode(IF track.muted /\ ~track.solo THEN 0 ELSE track.volume)

\* createGainNode(this.audioContext, track.muted ? 0 : track.volume)
trackGain(track) == createGainNode(IF track.muted THEN 0 ELSE track.volume)

\* the nodes of the engine's trackNodes map, as the builds made them
mapNodes(w) == {[build |-> w.nBuilds, track |-> t] : t \in DOMAIN w.trackNodes}

\* setupAudioNodes that leaves the old track nodes connected to the main gain
disconnectNothing(w) == w.connected

\* track.gain.disconnect(); track.panner.disconnect() for every entry of the map
disconnectTrackNodes(w) == w.connected \ mapNodes(w)

setupAudioNodes(w) ==
  IF w.audioContext = "none" \/ ~w.mainGainNode THEN w
  ELSE LET w2 == stopClipNodes(w)
           tracks == w.engineProject
       IN IF w2.out.raised THEN w2
          ELSE [w2 EXCEPT !.trackNodes = [t \in DOMAIN tracks |-> {}],
                          !.trackGraph =
                             [t \in DOMAIN tracks |->
                                [gain |-> trackGain(tracks[t]),
                                 pan |-> createStereoPanner(tracks[t].pan)]],
                          !.connected = disconnectTrackNodes(w) \cup
                                          {[build |-> w.nBuilds + 1, track |-> t] :
                                             t \in DOMAIN tracks},
                          !.nBuilds = @ + 1]

\* scheduleClip for a given outcome of the elapsed test (line 176) and given
\* arguments of source.start (line 190)
scheduleAt(w, c, elapsed, startOffset, scheduleStartTime) ==
  LET clip == allClips[c]
  IN IF w.audioContext = "none" \/ ~clip.audioBuffer THEN w
     ELSE IF elapsed THEN w
     ELSE [w EXCEPT !.sources[w.nBuilds][c] =
                       [st |-> "playing",
                        endAt |-> scheduleStartTime + Max(0, bufferDuration(c) - startOffset)],
                    !.trackNodes[clip.trackId] = @ \cup {c},
                    !.out.build.plan =
                       (c :> [when |-> scheduleStartTime, offset |-> startOffset]) @@ @]

\* an onended that deletes the clip id from whatever map the engine holds now
onendedByClipId(w, b, c) ==
  [w EXCEPT !.trackNodes = [t \in DOMAIN @ |-> @[t] \ {c}]]

\* source.onended of the source build b started for clip c: the closure holds
\* the TrackNodes object of its own build and deletes the clip id from that
\* object's clipNodes; the engine's map is the one of the last build
onended(w, b, c) ==
  [w EXCEPT !.trackNodes = IF b = w.nBuilds
                             THEN [t \in DOMAIN @ |-> @[t] \ {c}]
                             ELSE @]

\* scheduleClip that also skips a clip ending exactly at the position
scheduleClipSkipsAtEnd(w, c) ==
  LET clip == allClips[c]
      clipStartSamples == secondsToSamples(clip.startTime)
      currentSamplesOffset == w.state.currentSamples
  IN scheduleAt(w, c,
       clipStartSamples + secondsToSamples(clip.duration) <= currentSamplesOffset,
       Max(0, samplesToSeconds(currentSamplesOffset - clipStartSamples)),
       w.now + Max(0, samplesToSeconds(clipStartSamples - currentSamplesOffset)))

\* scheduleClip that passes the signed distance as the offset into the buffer
scheduleClipSignedOffset(w, c) ==
  LET clip == allClips[c]
      clipStartSamples == secondsToSamples(clip.startTime)
      currentSamplesOffset == w.state.currentSamples
  IN scheduleAt(w, c,
       clipStartSamples + secondsToSamples(clip.duration) < currentSamplesOffset,
       samplesToSeconds(currentSamplesOffset - clipStartSamples),
       w.now + Max(0, samplesToSeconds(clipStartSamples - currentSamplesOffset)))

scheduleClip(w, c) ==
  LET clip == allClips[c]
      clipStartSamples == secondsToSamples(clip.startTime)
      currentSamplesOffset == w.state.currentSamples
  IN scheduleAt(w, c,
       clipStartSamples + secondsToSamples(clip.duration) < currentSamplesOffset,
       Max(0, samplesToSeconds(currentSamplesOffset - clipStartSamples)),
       w.now + Max(0, samplesToSeconds(clipStartSamples - currentSamplesOffset)))

RECURSIVE scheduleClips(_, _)
scheduleClips(w, S) ==
  IF S = {} THEN w
  ELSE LET c == CHOOSE x \in S : TRUE
       IN scheduleClips(scheduleClip(w, c), S \ {c})

\* the body of startPlayback after `await this.resumeAudioContext()`
\* returned true, for a given startFromSamples
startFrom(w, cause, startFromSamples) ==
  LET w1 == [w EXCEPT !.startTime = w.now - samplesToSeconds(startFromSamples),
                      !.lastUpdateSamples = startFromSamples]
      w2 == setupAudioNodes(w1)
      w3 == scheduleClips(w2, UNION {clipIdsOf(t) : t \in DOMAIN w2.trackNodes})
      w4 == IF w3.rafId # "null" THEN cancelAnimationFrame(w3) ELSE w3
      w5 == requestAnimationFrame(w4)
  IN [w5 EXCEPT !.out.build = [cause |-> cause, pos |-> startFromSamples,
                               clips |-> registered(w5), plan |-> @.plan],
                !.out.call = [cause |-> cause, settled |-> "fulfilled",
                              started |-> TRUE, value |-> "undefined"],
                !.lastSeek.restartAt = IF w.lastSeek.at >= 0 THEN w.now ELSE @,
                !.lastWrap = IF cause = "wrap" THEN @ ELSE NoEvent,
                !.seekWindow.restarts = IF cause = "seek" THEN @ + 1 ELSE @,
                !.sought = IF cause = "wrap" THEN NoSought
                           ELSE IF cause = "play" /\ @.played /\ @.at < 0
                             THEN [@ EXCEPT !.at = w.now]
                           ELSE @]

\* a restart that continues from the position last reported
startContinuationFromLastReport(w, cause) == startFrom(w, cause, w.lastUpdateSamples)

\* const startFromSamples = this._state.currentSamples
startContinuation(w, cause) == startFrom(w, cause, w.state.currentSamples)

\* startPlayback when resumeAudioContext returned false
startGivesUp(w, cause) ==
  [w EXCEPT !.out.call = [cause |-> cause, settled |-> "fulfilled",
                          started |-> FALSE, value |-> "undefined"]]

\* the rejection of audioContext.resume() at line 88 leaves all three async
\* functions through their awaits
startRejects(w, cause) ==
  [w EXCEPT !.out.call = [cause |-> cause, settled |-> "rejected",
                          started |-> FALSE, value |-> "undefined"]]

\* initializeAudioContext up to its first await or its return:
\* ret is "true", "false" or "await" (waiting for resume() at line 88)
initializeAudioContext(w, createOk) ==
  CASE w.audioContext = "running" -> [w EXCEPT !.ret = "true"]
    [] w.audioContext = "suspended" -> [w EXCEPT !.ret = "await"]
    [] OTHER ->
         IF createOk
           THEN [onAudioContextInitialized(
                   [w EXCEPT !.audioContext = "suspended", !.mainGainNode = TRUE,
                             !.now = 0])
                 EXCEPT !.ret = "true"]
           ELSE [w EXCEPT !.ret = "false"]

\* resumeAudioContext up to its first pending await or its return:
\* ret is "true", "false", "await88" or "await127"
resumeAudioContext(w, createOk) ==
  LET i == initializeAudioContext(w, createOk)
  IN CASE i.ret = "await" -> [i EXCEPT !.ret = "await88"]
       [] i.ret = "false" \/ i.audioContext = "none" -> [i EXCEPT !.ret = "false"]
       [] i.audioContext = "suspended" -> [i EXCEPT !.ret = "await127"]
       [] OTHER -> [i EXCEPT !.ret = IF i.audioContext = "running" THEN "true" ELSE "false"]

\* a call of startPlayback, up to the point where it waits for the device;
\* with a running context its continuation is a microtask of this task
startPlayback(w, cause, createOk) ==
  LET r == resumeAudioContext(w, createOk)
  IN CASE r.ret = "true" -> [r EXCEPT !.micro = cause]
       [] r.ret = "false" -> startGivesUp(r, cause)
       [] OTHER -> [r EXCEPT !.calls = Append(@, [kind |-> "start", cause |-> cause,
                                                    site |-> r.ret])]

\* the microtasks of a task
endTask(w) ==
  IF w.micro # "none" THEN startContinuation([w EXCEPT !.micro = "none"], w.micro) ELSE w

\* a restart asked for by the timer of updateState has not been carried out
restartQueued(w) ==
  \/ w.timers # <<>>
  \/ \E i \in 1..Len(w.calls) : w.calls[i].cause = "seek"

updateState(w, newState) ==
  LET w1 == [w EXCEPT !.state = newState,
                      !.engineProject = w.hostTracks,
                      !.lastSeek = IF newState.currentSamples # @.pos \/ ~newState.isPlaying
                                     THEN NoSeek ELSE @]
  IN IF /\ newState.isPlaying
        /\ w1.audioContext # "none"
        /\ Abs(newState.currentSamples - w1.lastUpdateSamples) > SeekThreshold
       THEN [setTimeout(stopPlayback(w1)) EXCEPT
               !.lastSeek = IF @.at >= 0 /\ @.restartAt < 0 THEN @ ELSE
                            [at |-> w.now, pos |-> newState.currentSamples,
                             due |-> IF w.timers # <<>> \/ w.calls # <<>> THEN -1
                                     ELSE IF w.audioContext = "running"
                                       THEN w.now + samplesToSeconds(DebounceSamples)
                                     ELSE w.now,
                             restartAt |-> -1],
               !.seekWindow = IF restartQueued(w)
                                THEN [@ EXCEPT !.positions = @ \cup {newState.currentSamples}]
                                ELSE [positions |-> {newState.currentSamples},
                                      restarts |-> 0]]
       ELSE w1

\* a timer callback that does not start playback again
seekTimeoutForgets(w, createOk) == w

\* the callback of that setTimeout
seekTimeout(w, createOk) ==
  IF w.state.isPlaying THEN startPlayback(w, "seek", createOk) ELSE w

\* updateTime past its guard
poll(w) ==
    LET currentAudioTime == w.now - w.startTime
        currentSamples == secondsToSamples(Max(0, currentAudioTime))
        w1 == IF Abs(currentSamples - w.lastUpdateSamples) > SeekThreshold
                THEN onUpdateCurrentSamples(
                       [w EXCEPT !.lastUpdateSamples = currentSamples,
                                 !.out.polled = [samples |-> currentSamples,
                                                 wrapAt |-> w.lastWrap.at]],
                       currentSamples)
                ELSE w
        w2 == IF w1.state.isLooping /\ currentSamples >= loopEndSamples
                THEN LET a == [w1 EXCEPT
                                 !.startTime = w1.now - samplesToSeconds(loopStartSamples),
                                 !.lastUpdateSamples = loopStartSamples]
                         b == onUpdateCurrentSamples(a, loopStartSamples)
                         c == [b EXCEPT !.lastWrap = [at |-> b.now], !.lastSeek = NoSeek,
                                        !.sought = NoSought]
                     IN startPlayback(stopPlayback(c), "wrap", TRUE)
              ELSE IF ~w1.state.isLooping /\ currentSamples >= loopEndSamples
                THEN LET a == stopPlayback(w1)
                         b == onUpdateCurrentSamples(a, loopEndSamples)
                     IN [b EXCEPT !.lastHalt = [kind |-> "end", pos |-> loopEndSamples,
                                                build |-> b.nBuilds],
                                  !.lastWrap = NoEvent, !.lastSeek = NoSeek,
                                  !.sought = NoSought]
              ELSE w1
    IN IF w2.state.isPlaying THEN requestAnimationFrame(w2)
       ELSE [w2 EXCEPT !.rafId = "null"]

\* updateTime that polls whether or not the state says Playing
updateTimeIgnoresIsPlaying(w) ==
  IF w.audioContext = "none" THEN [w EXCEPT !.rafId = "null"] ELSE poll(w)

updateTime(w) ==
  IF w.audioContext = "none" \/ ~w.state.isPlaying
    THEN [w EXCEPT !.rafId = "null"]
  ELSE poll(w)

\* ------------------------------------------------- the provider's effects
hostSnapshot(w) ==
  [isPlaying |-> w.app.isPlaying, currentSamples |-> w.app.currentSamples,
   isLooping |-> w.app.isLooping]

\* one commit of the AudioEngineProvider: the updateState effect, then the
\* play/pause effect when isPlaying changed
runEffects(w, createOk) ==
  LET w1 == updateState([w EXCEPT !.stale = FALSE], hostSnapshot(w))
  IN IF w1.app.isPlaying = w1.effPlaying THEN w1
     ELSE LET e == [w1 EXCEPT !.effPlaying = w1.app.isPlaying]
          IN IF e.app.isPlaying THEN startPlayback(e, "play", createOk)
             ELSE stopPlayback(e)

\* what one behaviour may use of the unbounded resources
Within(w) ==
  /\ w.now <= samplesToSeconds(MaxClock)
  /\ w.nBuilds <= MaxBuilds
  /\ Len(w.calls) <= MaxCalls
  /\ w.intents <= MaxIntents

NoUtilCall == [fn |-> "none", args |-> <<>>, result |-> Num(0)]

\* ------------------------------------------------ the container (appReducer)
\* bounds
MaxIds == 3
MaxDecoding == 1
MaxHandlers == 2

\* initialState.project.bpm
ProjectBpm == 120
\* the minimum of calculateProjectDuration, 16 s
MinProjectDuration == 16 * UnitsPerSecond
\* Math.max(0.1, newDuration) of handleClipResize
MinClipDuration == UnitsPerSecond \div 10

\* durations of decoded files: 20 s
DecodedDurations == {20 * UnitsPerSecond}
\* durations passed to handleClipResize at the end of a drag of the clip's
\* edge, Math.max(0.1, clip.duration + deltaTime): one second more
ResizeInputs == {21 * UnitsPerSecond}
\* start times at the end of a drag of a clip: Math.max(0, ...)
DragTimes == {UnitsPerSecond \div 5}
\* start times a caller may pass to handleClipMoveToTrack
HandlerTimes == {-(UnitsPerSecond \div 10)}

NoAction == [type |-> "none", clipId |-> 0, trackId |-> 0, value |-> 0, gone |-> {}]
Idle == [step |-> "idle", clipId |-> 0, trackId |-> 0, control |-> 0,
         pending |-> <<>>, made |-> 0]

initialState ==
  /\ project = [tracks |-> [t \in {} |-> {}], duration |-> Num(MinProjectDuration)]
  /\ clips = [c \in {} |-> 0]
  /\ decoding = {}
  /\ messageHandlers = <<>>
  /\ creating = Idle
  /\ selectedClipId = 0
  /\ nextId = 1
  /\ lastAction = NoAction

\* the reducer's state as one record
Container ==
  [tracks |-> project.tracks, duration |-> project.duration, clips |-> clips,
   module |-> utilsModule]

MaxOf(S) == CHOOSE x \in S : \A y \in S : y <= x

\* tracksWithClips: the clips of the collection that some track lists
listed(tracks, cs) == {c \in DOMAIN cs : \E t \in DOMAIN tracks : c \in tracks[t]}

\* calculateProjectDuration of src/src/utils/audioUtils.ts: over track.clips
calculateProjectDuration(tracks, cs) ==
  IF DOMAIN tracks = {} THEN Num(MinProjectDuration)
  ELSE Num(MaxOf({MinProjectDuration}
                 \cup {cs[c].startTime + cs[c].duration : c \in listed(tracks, cs)}))

\* calculateProjectDuration of src/app/utils/audioUtils.ts: it maps over
\* track.clipIds, whose elements are strings: startTime + duration of a
\* string is NaN, and Math.max of NaN is NaN
calculateProjectDurationOfClipIds(tracks) ==
  IF DOMAIN tracks = {} THEN Num(MinProjectDuration)
  ELSE IF \E t \in DOMAIN tracks : tracks[t] # {} THEN NaN
  ELSE Num(MinProjectDuration)

newDuration(S, tracks, cs) ==
  IF S.module = "app" THEN calculateProjectDurationOfClipIds(tracks)
  ELSE calculateProjectDuration(tracks, cs)

ADD_CLIP(S, clipId, clip) ==
  [S EXCEPT !.clips = (clipId :> clip) @@ @]

ADD_TRACK(S, trackId, clipIds) ==
  LET updatedTracks == (trackId :> clipIds) @@ S.tracks
  IN [S EXCEPT !.tracks = updatedTracks,
               !.duration = newDuration(S, updatedTracks, S.clips)]

ASSIGN_CLIP_TO_TRACK(S, clipId, trackId) ==
  LET updatedTracks ==
        [t \in DOMAIN S.tracks |->
           IF t = trackId THEN S.tracks[t] \cup {clipId} ELSE S.tracks[t]]
  IN [S EXCEPT !.tracks = updatedTracks,
               !.duration = newDuration(S, updatedTracks, S.clips)]

\* UPDATE_CLIP with updates = { [field]: value }
UPDATE_CLIP(S, clipId, field, value) ==
  LET stored == IF field = "startTime"
                  THEN snapToGrid(Num(value), Num(ProjectBpm), Num(SIXTEENTH)).v
                  ELSE value
      updatedClips ==
        [c \in DOMAIN S.clips |->
           IF c = clipId THEN [S.clips[c] EXCEPT ![field] = stored] ELSE S.clips[c]]
  IN [S EXCEPT !.clips = updatedClips,
               !.duration = newDuration(S, S.tracks, updatedClips)]

\* REMOVE_TRACK that leaves the clip collection as it is
REMOVE_TRACKKeepsClips(S, trackId) ==
  IF trackId \notin DOMAIN S.tracks THEN S
  ELSE LET updatedTracks == [t \in DOMAIN S.tracks \ {trackId} |-> S.tracks[t]]
       IN [S EXCEPT !.tracks = updatedTracks,
                    !.duration = newDuration(S, updatedTracks, S.clips)]

REMOVE_TRACK(S, trackId) ==
  IF trackId \notin DOMAIN S.tracks THEN S
  ELSE LET trackToRemove == S.tracks[trackId]
           updatedTracks == [t \in DOMAIN S.tracks \ {trackId} |-> S.tracks[t]]
           updatedClips == [c \in DOMAIN S.clips \ trackToRemove |-> S.clips[c]]
       IN [S EXCEPT !.tracks = updatedTracks,
                    !.clips = updatedClips,
                    !.duration = newDuration(S, updatedTracks, updatedClips)]

MOVE_CLIP_TO_TRACK(S, clipId, targetTrackId, newStartTime) ==
  LET updatedTracks ==
        [t \in DOMAIN S.tracks |->
           IF clipId \in S.tracks[t] THEN S.tracks[t] \ {clipId}
           ELSE IF t = targetTrackId THEN S.tracks[t] \cup {clipId}
           ELSE S.tracks[t]]
      snappedStartTime == snapToGrid(Num(newStartTime), Num(ProjectBpm), Num(SIXTEENTH)).v
      updatedClips ==
        [c \in DOMAIN S.clips |->
           IF c = clipId
             THEN [S.clips[c] EXCEPT !.trackId = targetTrackId,
                                     !.startTime = snappedStartTime]
             ELSE S.clips[c]]
  IN [S EXCEPT !.tracks = updatedTracks,
               !.clips = updatedClips,
               !.duration = newDuration(S, updatedTracks, updatedClips)]

\* a dispatch: the reducer's result becomes the container's state
Reduced(S, type, clipId, trackId, value) ==
  /\ project' = [tracks |-> S.tracks, duration |-> S.duration]
  /\ clips' = S.clips
  /\ lastAction' = [type |-> type, clipId |-> clipId, trackId |-> trackId,
                    value |-> value, gone |-> DOMAIN clips \ DOMAIN S.clips]
  /\ UNCHANGED <<transportVars, util, utilsModule, messageHandlers, selectedClipId>>

\* the clips the timeline shows: getTrackClips of every track
rendered == listed(project.tracks, clips)

\* handleAddTrack
AddTrack ==
  /\ creating.step = "idle"
  /\ nextId <= MaxIds
  /\ Reduced(ADD_TRACK(Container, nextId, {}), "ADD_TRACK", 0, nextId, 0)
  /\ nextId' = nextId + 1
  /\ UNCHANGED <<decoding, creating>>

\* onTrackRemove of a track of the timeline
RemoveTrack(trackId) ==
  /\ creating.step = "idle"
  /\ trackId \in DOMAIN project.tracks
  /\ Reduced(REMOVE_TRACK(Container, trackId), "REMOVE_TRACK", 0, trackId, 0)
  /\ UNCHANGED <<decoding, creating, nextId>>

\* handleFilesSelected(files, trackId): audioDecoder.onMessage adds a message
\* handler that keeps the handleAudioDecoded of this render, with its
\* dragState.hoveredTrackId, and no handler is ever removed; control is the
\* track whose upload control the files came from, if any
handleFilesSelected(trackId, hoveredTrackId, control) ==
  /\ creating.step = "idle"
  /\ Cardinality(decoding) < MaxDecoding
  /\ Len(messageHandlers) < MaxHandlers
  /\ messageHandlers' = Append(messageHandlers, hoveredTrackId)
  /\ decoding' = decoding \cup {[trackId |-> trackId, control |-> control]}
  /\ UNCHANGED <<transportVars, util, project, clips, creating, selectedClipId, nextId,
                 utilsModule, lastAction>>

\* a drop on the tracks area, over a track or over none
FilesDropped(hoveredTrackId) ==
  /\ hoveredTrackId \in DOMAIN project.tracks \cup {0}
  /\ handleFilesSelected(0, hoveredTrackId, 0)

\* handleFileUpload of a track's upload control, then handleTrackFileUpload,
\* which leaves the track id out
TrackFileUpload(control) ==
  /\ control \in DOMAIN project.tracks
  /\ handleFilesSelected(0, 0, control)

\* the ids the handlers hs generate for one answer of the decoder: a clip id
\* each, and a track id where no track was hovered
idsNeeded(hs) == Len(hs) + Cardinality({i \in 1..Len(hs) : hs[i] = 0})

\* AudioDecoder.processMessage fails to decode the file: DECODE_ERROR, which
\* handleDecodeError only notes in the list of processing files
DecodeFailed(job) ==
  /\ creating.step = "idle"
  /\ job \in decoding
  /\ decoding' = decoding \ {job}
  /\ UNCHANGED <<transportVars, util, project, clips, messageHandlers, creating,
                 selectedClipId, nextId, utilsModule, lastAction>>

\* AudioDecoder.processMessage answers without the trackId of the request:
\* handleAudioDecoded gets undefined for it.  postMessage hands the answer to
\* every registered handler, the oldest first.  handleAudioDecoded: ADD_CLIP
AudioDecoded(job, duration) ==
  LET trackId == 0
      targetTrackId == IF trackId # 0 THEN trackId ELSE Head(messageHandlers)
  IN /\ creating.step = "idle"
     /\ job \in decoding
     /\ nextId - 1 + idsNeeded(messageHandlers) <= MaxIds
     /\ Reduced(ADD_CLIP(Container, nextId,
                          [trackId |-> 0,
                           startTime |-> snapToGrid(Num(0), Num(ProjectBpm), Num(SIXTEENTH)).v,
                           duration |-> duration,
                           bufferDuration |-> duration]),
                "ADD_CLIP", nextId, 0, 0)
     /\ decoding' = decoding \ {job}
     /\ creating' = [step |-> "assign", clipId |-> nextId, trackId |-> targetTrackId,
                     control |-> job.control, pending |-> Tail(messageHandlers),
                     made |-> 1]
     /\ nextId' = nextId + 1

\* the next handler of messageHandlers.forEach gets the same answer: its
\* handleAudioDecoded makes a clip of its own from the same buffer
AudioDecodedAgain ==
  LET trackId == 0
      targetTrackId == IF trackId # 0 THEN trackId ELSE Head(creating.pending)
      duration == clips[creating.clipId].bufferDuration
  IN /\ creating.step = "next"
     /\ nextId + (IF targetTrackId = 0 THEN 1 ELSE 0) <= MaxIds
     /\ Reduced(ADD_CLIP(Container, nextId,
                          [trackId |-> 0,
                           startTime |-> snapToGrid(Num(0), Num(ProjectBpm), Num(SIXTEENTH)).v,
                           duration |-> duration,
                           bufferDuration |-> duration]),
                "ADD_CLIP", nextId, 0, 0)
     /\ creating' = [creating EXCEPT !.step = "assign", !.clipId = nextId,
                                     !.trackId = targetTrackId,
                                     !.pending = Tail(@), !.made = @ + 1]
     /\ nextId' = nextId + 1
     /\ UNCHANGED decoding

\* handleAudioDecoded: ASSIGN_CLIP_TO_TRACK, or ADD_TRACK of a new track
AudioDecodedAssigns ==
  /\ creating.step = "assign"
  /\ IF creating.trackId # 0
       THEN /\ Reduced(ASSIGN_CLIP_TO_TRACK(Container, creating.clipId, creating.trackId),
                       "ASSIGN_CLIP_TO_TRACK", creating.clipId, creating.trackId, 0)
            /\ creating' = [creating EXCEPT !.step = "update"]
            /\ UNCHANGED nextId
       ELSE /\ Reduced(ADD_TRACK(Container, nextId, {creating.clipId}),
                       "ADD_TRACK", creating.clipId, nextId, 0)
            /\ creating' = [creating EXCEPT !.step = "update", !.trackId = nextId]
            /\ nextId' = nextId + 1
  /\ UNCHANGED decoding

\* handleAudioDecoded: UPDATE_CLIP with the assigned track
AudioDecodedUpdates ==
  /\ creating.step = "update"
  /\ Reduced(UPDATE_CLIP(Container, creating.clipId, "trackId", creating.trackId),
             "UPDATE_CLIP", creating.clipId, creating.trackId, 0)
  /\ creating' = IF creating.pending = <<>> THEN Idle
                 ELSE [creating EXCEPT !.step = "next"]
  /\ UNCHANGED <<decoding, nextId>>

\* handleClipMove
ClipMove(clipId, newStartTime) ==
  /\ creating.step = "idle"
  /\ clipId \in rendered
  /\ Reduced(UPDATE_CLIP(Container, clipId, "startTime", Max(0, newStartTime)),
             "UPDATE_CLIP", clipId, 0, newStartTime)
  /\ UNCHANGED <<decoding, creating, nextId>>

\* the end of a drag that stays on the clip's track
ClipDragged ==
  \E clipId \in DOMAIN clips, newStartTime \in DragTimes : ClipMove(clipId, newStartTime)

\* constrainTime; Math.max and Math.min return NaN when an argument is NaN
constrainTime(time, minTime, maxTime) ==
  LET MathMax(a, b) == IF isNaN(a) \/ isNaN(b) THEN NaN ELSE IF a.v >= b.v THEN a ELSE b
      MathMin(a, b) == IF isNaN(a) \/ isNaN(b) THEN NaN ELSE IF a.v <= b.v THEN a ELSE b
  IN MathMin(maxTime, MathMax(minTime, time))

\* HotkeysHandler.handleNudgeLeft with the clip selected; the container's
\* onNudgeLeft takes no arguments and calls handleClipMove(selected, -0.1)
NudgeLeft(clipId) ==
  /\ clipId \in rendered
  /\ LET selectedClip == clips[clipId]
         newStartTime == moveByGrid(Num(selectedClip.startTime), Num(-1),
                                    Num(ProjectBpm), Num(SIXTEENTH))
         constrainedStartTime == constrainTime(newStartTime, Num(0), Infinity)
     IN /\ constrainedStartTime # Num(selectedClip.startTime)
        /\ ClipMove(clipId, -(UnitsPerSecond \div 10))

\* HotkeysHandler.handleNudgeRight; onNudgeRight calls handleClipMove(selected, +0.1)
NudgeRight(clipId) ==
  /\ clipId \in rendered
  /\ LET selectedClip == clips[clipId]
         newStartTime == moveByGrid(Num(selectedClip.startTime), Num(1),
                                    Num(ProjectBpm), Num(SIXTEENTH))
         projectDuration == project.duration
         constrainedStartTime ==
           constrainTime(newStartTime, Num(0),
                         constrainTime(Plus(projectDuration, Num(-selectedClip.duration)),
                                       Num(0), Infinity))
     IN /\ constrainedStartTime # Num(selectedClip.startTime)
        /\ ClipMove(clipId, UnitsPerSecond \div 10)

\* handleClipResize
ClipResize(clipId, resizedDuration) ==
  /\ creating.step = "idle"
  /\ clipId \in rendered
  /\ Reduced(UPDATE_CLIP(Container, clipId, "duration", Max(MinClipDuration, resizedDuration)),
             "UPDATE_CLIP", clipId, 0, resizedDuration)
  /\ UNCHANGED <<decoding, creating, nextId>>

\* handleClipSelect: SELECT_CLIP from a click on a clip of the timeline
ClipSelected(clipId) ==
  /\ creating.step = "idle"
  /\ clipId \in rendered
  /\ selectedClipId # clipId
  /\ selectedClipId' = clipId
  /\ UNCHANGED <<transportVars, util, project, clips, decoding, messageHandlers, creating,
                 nextId, utilsModule, lastAction>>

\* HotkeysHandler.handleShortenClip (Shift + Left Arrow) with the clip that
\* getSelectedClip finds; the container's onShortenClip takes no arguments
\* and calls handleClipResize(selected, -1)
ShortenClip ==
  /\ creating.step = "idle"
  /\ selectedClipId \in DOMAIN clips
  /\ LET selectedClip == clips[selectedClipId]
         gridDuration == getGridDuration(Num(ProjectBpm), Num(SIXTEENTH)).v
         shortened == selectedClip.duration - gridDuration
         constrainedDuration == Max(gridDuration, shortened)
     IN /\ constrainedDuration # selectedClip.duration
        /\ constrainedDuration > 0
        /\ Reduced(UPDATE_CLIP(Container, selectedClipId, "duration",
                               Max(MinClipDuration, -UnitsPerSecond)),
                   "UPDATE_CLIP", selectedClipId, 0, -UnitsPerSecond)
  /\ UNCHANGED <<decoding, creating, nextId>>

\* handleClipMoveToTrack
handleClipMoveToTrack(clipId, targetTrackId, newStartTime) ==
  /\ creating.step = "idle"
  /\ Reduced(MOVE_CLIP_TO_TRACK(Container, clipId, targetTrackId, newStartTime),
             "MOVE_CLIP_TO_TRACK", clipId, targetTrackId, newStartTime)
  /\ UNCHANGED <<decoding, creating, nextId>>

\* the end of a drag onto another track
ClipDraggedToTrack ==
  \E clipId \in rendered, targetTrackId \in DOMAIN project.tracks,
     newStartTime \in DragTimes :
    /\ targetTrackId # clips[clipId].trackId
    /\ handleClipMoveToTrack(clipId, targetTrackId, newStartTime)

\* handleClipMoveToTrack with a clip, a track and a start time of the
\* caller's choice
ClipMoveToTrackCalled ==
  \E clipId \in DOMAIN clips, targetTrackId \in DOMAIN project.tracks,
     newStartTime \in HandlerTimes :
    handleClipMoveToTrack(clipId, targetTrackId, newStartTime)

\* the track files are dropped on and uploaded to: the first of the timeline
firstTrack == {t \in DOMAIN project.tracks : \A u \in DOMAIN project.tracks : t <= u}

ProjectNext ==
  \/ AddTrack
  \/ \E trackId \in DOMAIN project.tracks : RemoveTrack(trackId)
  \/ \E hoveredTrackId \in firstTrack \cup {0} : FilesDropped(hoveredTrackId)
  \/ \E control \in firstTrack : TrackFileUpload(control)
  \/ \E job \in decoding, duration \in DecodedDurations : AudioDecoded(job, duration)
  \/ AudioDecodedAssigns
  \/ AudioDecodedUpdates
  \/ AudioDecodedAgain
  \/ \E job \in decoding : DecodeFailed(job)
  \/ ClipDragged
  \/ \E clipId \in DOMAIN clips : NudgeLeft(clipId)
  \/ \E clipId \in DOMAIN clips : NudgeRight(clipId)
  \/ \E clipId \in DOMAIN clips, resizedDuration \in ResizeInputs :
       ClipResize(clipId, resizedDuration)
  \/ ClipDraggedToTrack


Init ==
  /\ now = 0
  /\ audioContext = "none"
  /\ mainGainNode = FALSE
  /\ trackNodes = [t \in {} |-> {}]
  /\ sources = [b \in 1..MaxBuilds |-> [c \in ClipIds |-> NoSource]]
  /\ nBuilds = 0
  /\ rafId = "null"
  /\ frames = 0
  /\ timers = <<>>
  /\ calls = <<>>
  /\ startTime = 0
  /\ pausedAtSamples = 0
  /\ lastUpdateSamples = 0
  /\ state = [isPlaying |-> FALSE, currentSamples |-> 0, isLooping |-> FALSE]
  /\ app = [isPlaying |-> FALSE, currentSamples |-> 0, isLooping |-> FALSE,
            isInitialized |-> FALSE]
  /\ stale = FALSE
  /\ effPlaying = FALSE
  /\ intents = 0
  /\ loopStartSamples \in LoopStarts
  /\ loopEndSamples \in LoopEnds
  /\ out = NoOut
  /\ lastWrap = NoEvent
  /\ lastSeek = NoSeek
  /\ lastHalt = NoHalt
  /\ seekWindow = NoWindow
  /\ sought = NoSought
  /\ hostTracks = initialTracks
  /\ engineProject = initialTracks
  /\ trackGraph = [t \in {} |-> NoNodes]
  /\ connected = {}
  /\ util = NoUtilCall
  /\ initialState
  /\ utilsModule \in {"app", "src"}

Do(w) == Within(w) /\ Becomes(w)

\* ------------------------------------------------------------ user intents
\* handlePlay: SET_PLAYING true, committed in the task of the click
Play ==
  /\ ~app.isPlaying
  /\ \E createOk \in BOOLEAN :
       Do(endTask(runEffects(
            [World EXCEPT !.intents = @ + 1,
                          !.app.isPlaying = TRUE,
                          !.lastWrap = NoEvent,
                          !.lastHalt = NoHalt,
                          !.sought.played = (sought.pos >= 0)], createOk)))

\* handlePause: SET_PLAYING false
Pause ==
  /\ app.isPlaying
  /\ Do(endTask(runEffects(
          [World EXCEPT !.intents = @ + 1,
                        !.app.isPlaying = FALSE,
                        !.lastWrap = NoEvent,
                        !.lastHalt = [kind |-> "pause", pos |-> app.currentSamples,
                                      build |-> nBuilds],
                        !.sought = NoSought],
          TRUE)))

\* handleStop: SET_PLAYING false, then SET_CURRENT_SAMPLES 0, one commit
Stop ==
  /\ app.isPlaying \/ app.currentSamples # 0
  /\ Do(endTask(runEffects(
          [World EXCEPT !.intents = @ + 1,
                        !.app.isPlaying = FALSE,
                        !.app.currentSamples = 0,
                        !.lastWrap = NoEvent,
                        !.lastHalt = [kind |-> "stop", pos |-> 0, build |-> nBuilds],
                        !.sought = NoSought],
          TRUE)))

\* handleLoopToggle: SET_LOOPING
ToggleLoop ==
  Do(endTask(runEffects([World EXCEPT !.intents = @ + 1,
                                      !.app.isLooping = ~app.isLooping,
                                      !.lastWrap = NoEvent], TRUE)))

\* handleScrub: SET_CURRENT_SAMPLES from the timeline; committed by a later task
Seek(samples) ==
  /\ samples # app.currentSamples
  /\ Do([World EXCEPT !.intents = @ + 1,
                      !.app.currentSamples = samples,
                      !.stale = TRUE,
                      !.lastWrap = NoEvent,
                      !.lastHalt = NoHalt,
                      !.sought = IF app.isPlaying THEN NoSought
                                 ELSE [pos |-> samples, played |-> FALSE, at |-> -1]])

\* ------------------------------------------------------------- later tasks
\* React commits the updates dispatched outside discrete events
HostCommit ==
  /\ stale
  /\ Do(endTask(runEffects(World, TRUE)))

\* an animation frame: the callback the engine remembers, or another one
Frame ==
  /\ frames > 0
  /\ \E own \in BOOLEAN :
       /\ own => rafId = "live"
       /\ ~own => frames > (IF rafId = "live" THEN 1 ELSE 0)
       /\ Do(endTask(updateTime(
               [World EXCEPT !.frames = @ - 1,
                             !.rafId = IF own THEN "spent" ELSE @])))

\* the debounce timer of updateState fires
SeekTimer ==
  /\ timers # <<>>
  /\ audioContext = "running" => Head(timers) <= now
  /\ Do(endTask(seekTimeout([World EXCEPT !.timers = Tail(@)], TRUE)))

\* the device lets the context run
DeviceStarts ==
  /\ audioContext = "suspended"
  /\ Do([World EXCEPT !.audioContext = "running"])

\* a pending audioContext.resume() resolves
ResumeResolves ==
  /\ calls # <<>>
  /\ audioContext = "running"
  /\ LET call == Head(calls)
         w == [World EXCEPT !.calls = Tail(@)]
     IN Do(IF call.kind = "start" THEN startContinuation(w, call.cause) ELSE w)

\* a pending audioContext.resume() rejects: the device cannot be resumed
ResumeRejects ==
  /\ calls # <<>>
  /\ audioContext = "suspended"
  /\ LET call == Head(calls)
         w == [World EXCEPT !.calls = Tail(@)]
     IN Do(IF call.kind # "start" THEN w
           ELSE IF call.site = "await88" THEN startRejects(w, call.cause)
           ELSE startGivesUp(w, call.cause))

\* the audio clock advances
Tick(d) ==
  /\ audioContext = "running"
  /\ Do([World EXCEPT !.now = @ + samplesToSeconds(d)])

\* a source reaches the end of its buffer: onended removes the clip from the
\* clipNodes map of the build the source belongs to.  (The ended event of a
\* stopped source finds that map already cleared or replaced.)
SourceEnded(b, c) ==
  /\ sources[b][c].st = "playing"
  /\ sources[b][c].endAt <= now
  /\ Do(onended([World EXCEPT !.sources[b][c] = [st |-> "ended", endAt |-> 0]], b, c))

\* a source that stop() has ended delivers its ended event as well
StoppedSourceEnded(b, c) ==
  /\ sources[b][c].st = "stopped"
  /\ Do([onended([World EXCEPT !.sources[b][c] = [st |-> "cut", endAt |-> 0]], b, c)
           EXCEPT !.out.ended = [build |-> b, clip |-> c]])

\* handleTrackUpdate: UPDATE_TRACK from a control of the track header,
\* committed in the task of the event
TrackUpdate(trackId, field, value) ==
  /\ trackId \in DOMAIN hostTracks
  /\ hostTracks[trackId][field] # value
  /\ Do(endTask(runEffects([World EXCEPT !.hostTracks[trackId][field] = value], TRUE)))

\* the mute and solo buttons of a track, the pan slider of t1, the volume
\* slider of t2
TrackEdited ==
  \/ \E t \in Tracks : t \in DOMAIN hostTracks /\ TrackUpdate(t, "muted", ~hostTracks[t].muted)
  \/ \E t \in Tracks : t \in DOMAIN hostTracks /\ TrackUpdate(t, "solo", ~hostTracks[t].solo)
  \/ \E pan \in PanInputs : TrackUpdate("t1", "pan", pan)
  \/ \E volume \in VolumeInputs : TrackUpdate("t2", "volume", volume)

\* REMOVE_TRACK of a track of the project
TrackRemoved(trackId) ==
  /\ trackId \in DOMAIN hostTracks
  /\ Do(endTask(runEffects(
          [World EXCEPT !.hostTracks = [t \in DOMAIN @ \ {trackId} |-> @[t]]], TRUE)))

Next ==
  \/ Play
  \/ Pause
  \/ Stop
  \/ ToggleLoop
  \/ \E samples \in SeekTargets : Seek(samples)
  \/ HostCommit
  \/ Frame
  \/ SeekTimer
  \/ DeviceStarts
  \/ ResumeResolves
  \/ ResumeRejects
  \/ \E d \in ClockSteps : Tick(d)
  \/ \E b \in 1..MaxBuilds, c \in ClipIds : SourceEnded(b, c)

Spec == Init /\ [][Next]_vars

\* the transport with the controls of the track headers
MixerNext ==
  \/ Play
  \/ Pause
  \/ HostCommit
  \/ DeviceStarts
  \/ ResumeResolves
  \/ TrackEdited
  \/ \E trackId \in Tracks : TrackRemoved(trackId)

MixerSpec == Init /\ [][MixerNext]_vars

\* ------------------------------------------------- rebuilds at many positions
\* the transport driven by play, pause and scrubbing only, with scrub targets
\* on both sides of every clip boundary
SchedPositions == {0, 641, 940, 941, 942, 1500, 3500, 3501}

SchedNext ==
  \/ Play
  \/ Pause
  \/ \E samples \in SchedPositions : Seek(samples)
  \/ HostCommit
  \/ SeekTimer
  \/ DeviceStarts
  \/ ResumeResolves
  \/ \E d \in ClockSteps : Tick(d)

\* the engine does not import the container's utility module: one
\* resolution of that import is enough here
SchedInit == Init /\ utilsModule = "src"

SchedSpec == SchedInit /\ [][SchedNext]_vars

\* ------------------------------------------------------- a running device
\* the transport kept Playing (no pause, no stop) on a device that lets the
\* context run when asked to (no resume() is rejected), with the timers and
\* the audio clock not held back for ever
LiveNext ==
  \/ Play
  \/ ToggleLoop
  \/ \E samples \in SeekTargets : Seek(samples)
  \/ HostCommit
  \/ Frame
  \/ SeekTimer
  \/ DeviceStarts
  \/ ResumeResolves
  \/ \E d \in ClockSteps : Tick(d)

\* the step of SeekTimer as the timer queue shows it: a timer that has run
\* out on a running context is taken off the queue (while the behaviour has
\* room for the build its callback makes)
TimerRuns ==
  /\ audioContext = "running"
  /\ timers # <<>>
  /\ Head(timers) <= now
  /\ nBuilds < MaxBuilds
  /\ timers' = Tail(timers)

\* the step of Tick as the clock shows it
ClockRuns ==
  /\ audioContext = "running"
  /\ \E d \in ClockSteps :
       /\ now + samplesToSeconds(d) <= samplesToSeconds(MaxClock)
       /\ now' = now + samplesToSeconds(d)

\* a timer that has run out fires, and the audio clock of a running context
\* advances
LiveSpec ==
  /\ SchedInit
  /\ [][LiveNext]_vars
  /\ WF_timers(TimerRuns)
  /\ WF_now(ClockRuns)

\* ---------------------------------------------------- ended notifications
\* play and pause with the ended events of all sources, stopped ones included
EndedNext ==
  \/ Play
  \/ Pause
  \/ DeviceStarts
  \/ ResumeResolves
  \/ \E d \in ClockSteps : Tick(d)
  \/ \E b \in 1..MaxBuilds, c \in ClipIds : SourceEnded(b, c)
  \/ \E b \in 1..MaxBuilds, c \in ClipIds : StoppedSourceEnded(b, c)

EndedSpec == SchedInit /\ [][EndedNext]_vars

\* ------------------------------------------------ calls of the time utility
\* numeric arguments: not-a-number, the infinities, zero, negative, positive
Numbers == {NaN, Infinity, NegInfinity, Num(0), Num(-120), Num(20), Num(120)}

Called(fn, args, result) ==
  /\ util' = [fn |-> fn, args |-> args, result |-> result]
  /\ UNCHANGED <<transportVars, projectVars>>

CallGetGridDuration ==
  \E bpm, gridSize \in Numbers :
    Called("getGridDuration", <<bpm, gridSize>>, getGridDuration(bpm, gridSize))

CallSnapToGrid ==
  \E time, bpm, gridSize \in Numbers :
    Called("snapToGrid", <<time, bpm, gridSize>>, snapToGrid(time, bpm, gridSize))

CallMoveByGrid ==
  \E time, gridUnits, bpm \in Numbers :
    Called("moveByGrid", <<time, gridUnits, bpm>>,
           moveByGrid(time, gridUnits, bpm, Num(SIXTEENTH)))

CallPixelsToTime ==
  \E pixels, pixelsPerSecond \in Numbers :
    Called("pixelsToTime", <<pixels, pixelsPerSecond>>, pixelsToTime(pixels, pixelsPerSecond))

CallTimeToPixels ==
  \E time, pixelsPerSecond \in Numbers :
    Called("timeToPixels", <<time, pixelsPerSecond>>, timeToPixels(time, pixelsPerSecond))

CallSamplesToSeconds ==
  \E samples, sampleRate \in Numbers :
    Called("samplesToSeconds", <<samples, sampleRate>>, samplesToSecondsAt(samples, sampleRate))

CallSecondsToSamples ==
  \E seconds, sampleRate \in Numbers :
    Called("secondsToSamples", <<seconds, sampleRate>>, secondsToSamplesAt(seconds, sampleRate))

\* sample counts converted to seconds and back by the engine
SampleCounts == {0, 1, 127, 128, 1000, 44100}

CallSampleRoundTrip ==
  \E samples \in SampleCounts :
    Called("roundTrip", <<Num(samples)>>, Num(secondsToSamples(samplesToSeconds(samples))))

UtilNext ==
  \/ CallSampleRoundTrip
  \/ CallGetGridDuration
  \/ CallSnapToGrid
  \/ CallMoveByGrid
  \/ CallPixelsToTime
  \/ CallTimeToPixels
  \/ CallSamplesToSeconds
  \/ CallSecondsToSamples

UtilSpec == Init /\ [][UtilNext]_vars

\* ------------------------------------------------------------------ claims
Playing(b, c) == sources[b][c].st = "playing"
Builds == 1..MaxBuilds
BufferedClips == {c \in ClipIds : allClips[c].audioBuffer}

\* C1: after any number of consecutive rebuild-and-schedule runs, overlapping
\* ones included, every clip has at most one source that was started and not
\* stopped, and no source of an earlier build is still playing.
C1_OneVoicePerClip ==
  \A c \in ClipIds :
    /\ Cardinality({b \in Builds : Playing(b, c)}) <= 1
    /\ \A b \in Builds : Playing(b, c) => b = nBuilds

\* two startPlayback runs whose resume overlapped (play, pause, play before
\* the device started) completed back to back, with no stopPlayback between
C1_Witness ==
  /\ intents = 3
  /\ now = 0
  /\ nBuilds = 2
  /\ out.build.cause = "play"
  /\ sources[1]["c2"].st = "stopped"
  /\ Playing(2, "c2")

\* C2: with looping on, every position reported after a wrap (until the next
\* wrap, restart or transport change) is loopStartSamples plus the time since
\* the wrap: the last report of a task, and the polled position a task
\* reported while the wrap was in force, which is also below loopEndSamples.
C2_WrapPositions ==
  /\ (lastWrap.at >= 0 /\ out.report >= 0)
       => out.report = loopStartSamples + secondsToSamples(now - lastWrap.at)
  /\ (out.polled.wrapAt >= 0 /\ out.polled.samples >= 0)
       => /\ out.polled.samples = loopStartSamples + secondsToSamples(now - out.polled.wrapAt)
          /\ out.polled.samples < loopEndSamples

\* C3: the rebuild of a loop wrap schedules from loopStartSamples and gives
\* every decoded clip that starts inside the loop region a new source.
C3_WrapRebuild ==
  out.build.cause = "wrap" =>
    /\ out.build.pos = loopStartSamples
    /\ \A c \in BufferedClips :
         LET clipStartSamples == secondsToSamples(allClips[c].startTime)
         IN (loopStartSamples <= clipStartSamples /\ clipStartSamples < loopEndSamples)
              => c \in out.build.clips

\* C4: from the delivery of a position more than 1000 samples away from the
\* last reported one, while Playing, the sources of that moment are stopped
\* and nothing is reported until a restart; the timer's restart comes no
\* earlier than the debounce delay (lastSeek.due, known when no timer and no
\* startPlayback of an earlier request was pending at the delivery); every position reported after
\* it is the delivered position plus the time since the restart.
C4_SeekRestart ==
  lastSeek.at >= 0 =>
    /\ lastSeek.restartAt < 0 =>
         /\ \A b \in Builds, c \in ClipIds : ~Playing(b, c)
         /\ frames = 0
         /\ out.report < 0
    /\ (out.build.cause = "seek" /\ lastSeek.due >= 0) => now >= lastSeek.due
    /\ out.report >= 0 =>
         out.report = lastSeek.pos + secondsToSamples(now - lastSeek.restartAt)

\* a position was reported after the restart that followed an external seek
C4_Witness ==
  /\ lastSeek.restartAt > lastSeek.at
  /\ lastSeek.at > 0
  /\ out.report > lastSeek.pos
  /\ lastSeek.pos > 0
  /\ lastSeek.due > lastSeek.at

\* C5: a play request whose device resume fails leaves the host's isPlaying
\* as it was before the request (false: play is only offered when paused).
C5_FailedPlayKeepsState ==
  (/\ out.call.cause = "play"
   /\ out.call.settled # "none"
   /\ ~out.call.started
   /\ \A i \in 1..Len(calls) : calls[i].cause # "play")
    => ~app.isPlaying

\* C6: a startPlayback that could not resume the device ends without a
\* rejection and returns a value that differs from the value of a success.
C6_ExplicitResult ==
  (out.call.settled # "none" /\ ~out.call.started)
    => /\ out.call.settled = "fulfilled"
       /\ out.call.value # "undefined"

\* C7: after pause while Playing, every source that existed at the pause is
\* stopped, and the host position stays what it was at the pause; nothing is
\* reported.
C7_PauseFreezes ==
  lastHalt.kind = "pause" =>
    /\ \A b \in Builds, c \in ClipIds : b <= lastHalt.build => ~Playing(b, c)
    /\ app.currentSamples = lastHalt.pos
    /\ out.report < 0

\* paused in mid-play, with a source that the pause stopped
C7_Witness ==
  /\ lastHalt.kind = "pause"
  /\ lastHalt.pos > 0
  /\ lastHalt.build >= 1
  /\ \E c \in ClipIds : sources[lastHalt.build][c].st = "stopped"
  /\ now > 0

\* C8: after stop the transport is not playing and the host position is 0,
\* and stays so whatever callback or call was pending at the stop.
C8_StopResets ==
  lastHalt.kind = "stop" =>
    /\ ~app.isPlaying
    /\ app.currentSamples = 0
    /\ out.report < 0

\* stopped from mid-play, and a callback that was pending at the stop has run
C8_Witness ==
  /\ lastHalt.kind = "stop"
  /\ now > 0
  /\ out.build.cause = "play"

\* C9: while Paused (the engine has processed isPlaying = false) no source is
\* playing and no clip is registered in a clipNodes map.
C9_PausedNothingScheduled ==
  (~app.isPlaying /\ ~state.isPlaying /\ ~effPlaying)
    => /\ \A b \in Builds, c \in ClipIds : ~Playing(b, c)
       /\ registered(World) = {}

\* C10: with looping off, once the position has reached loopEndSamples the
\* transport is not Playing, no source plays, no frame is pending and every
\* report equals loopEndSamples.
C10_RegionEndStops ==
  lastHalt.kind = "end" =>
    /\ ~app.isPlaying
    /\ frames = 0
    /\ \A b \in Builds, c \in ClipIds : ~Playing(b, c)
    /\ out.report >= 0 => out.report = loopEndSamples

\* C11: when more than one position was delivered (and detected as a seek)
\* within one debounce window, at most one restart is carried out for it, after
\* that restart no other one is queued, and the restart is from the latest
\* delivered position.
C11_OneRestartPerWindow ==
  Cardinality(seekWindow.positions) >= 2 =>
    /\ seekWindow.restarts <= 1
    /\ seekWindow.restarts = 1 => ~restartQueued(World)
    /\ out.build.cause = "seek" => out.build.pos = state.currentSamples

ClipEndSamples(c) ==
  secondsToSamples(allClips[c].startTime) + secondsToSamples(allClips[c].duration)

\* C12: a rebuild at position p creates a source for a clip exactly when the
\* clip has a buffer and its start plus its duration, in samples, is at least
\* p; a clip without a buffer gets none at any position.
C12_ScheduledIffNotElapsed ==
  out.build.cause # "none" =>
    \A c \in ClipIds :
      (c \in out.build.clips /\ Playing(nBuilds, c))
        <=> (allClips[c].audioBuffer /\ ClipEndSamples(c) >= out.build.pos)

\* a rebuild at the very end of c1: c1 is scheduled, c3 (no buffer) is not
C12_Witness ==
  /\ out.build.cause # "none"
  /\ out.build.pos = ClipEndSamples("c1")
  /\ "c1" \in out.build.clips
  /\ "c3" \notin out.build.clips

\* C13: for every clip scheduled at position p with clip start c, the offset
\* into the buffer is max(0, p - c) and the delay after the clock's now is
\* max(0, c - p), in seconds: neither is negative, at most one is non-zero.
C13_OffsetAndDelay ==
  out.build.cause # "none" =>
    \A c \in DOMAIN out.build.plan :
      LET p == out.build.pos
          clipStartSamples == secondsToSamples(allClips[c].startTime)
          offset == out.build.plan[c].offset
          delay == out.build.plan[c].when - now
      IN /\ offset = samplesToSeconds(Max(0, p - clipStartSamples))
         /\ delay = samplesToSeconds(Max(0, clipStartSamples - p))
         /\ offset >= 0 /\ delay >= 0
         /\ offset = 0 \/ delay = 0

\* a rebuild, later than time 0, inside one clip and before another
C13_Witness ==
  /\ out.build.cause # "none"
  /\ now > 0
  /\ \E c, d \in DOMAIN out.build.plan :
       /\ out.build.plan[c].offset > 0
       /\ out.build.plan[d].when > now

\* C14: a scheduled clip whose duration is shorter than its buffer falls
\* silent when the transport position reaches the clip's start plus its
\* duration.
C14_StopsAtDuration ==
  out.build.cause # "none" =>
    \A c \in DOMAIN out.build.plan :
      allClips[c].duration < bufferDuration(c) =>
        sources[nBuilds][c].endAt =
          out.build.plan[c].when + Max(0, allClips[c].duration - out.build.plan[c].offset)

\* C20: no function of the time utility returns NaN or an infinity, whatever
\* numbers it is given.
C20_UtilityResultsFinite ==
  util.fn # "none" => isFinite(util.result)

\* C21: snapping a time that snapToGrid returned for a finite time and a
\* bpm above 0, with the same bpm and grid size, returns the same time.
C21_SnapIdempotent ==
  (util.fn = "snapToGrid" /\ isFinite(util.args[1]) /\ GtZero(util.args[2]))
    => snapToGrid(util.result, util.args[2], util.args[3]) = util.result

\* a time off the grid was snapped, at a bpm other than the fallback
C21_Witness ==
  /\ util.fn = "snapToGrid"
  /\ isFinite(util.args[1])
  /\ util.args[2] = Num(20)
  /\ isFinite(util.result)
  /\ util.result # util.args[1]

ProjectSpec == Init /\ [][ProjectNext]_vars

ReducerNext == ProjectNext \/ ClipMoveToTrackCalled

ReducerSpec == Init /\ [][ReducerNext]_vars

\* the container with the selection and the shorten hotkey
SelectionNext ==
  \/ AddTrack
  \/ \E trackId \in DOMAIN project.tracks : RemoveTrack(trackId)
  \/ \E hoveredTrackId \in firstTrack \cup {0} : FilesDropped(hoveredTrackId)
  \/ \E job \in decoding, duration \in DecodedDurations : AudioDecoded(job, duration)
  \/ AudioDecodedAssigns
  \/ AudioDecodedUpdates
  \/ AudioDecodedAgain
  \/ \E job \in decoding : DecodeFailed(job)
  \/ \E clipId \in DOMAIN clips : ClipSelected(clipId)
  \/ ShortenClip
  \/ \E clipId \in DOMAIN clips, resizedDuration \in ResizeInputs :
       ClipResize(clipId, resizedDuration)

SelectionSpec == Init /\ [][SelectionNext]_vars

C16_ClipsReferenceTracks ==
  creating.step = "idle" =>
    \A c \in DOMAIN clips : clips[c].trackId \in DOMAIN project.tracks

\* C17: project.duration is a number, at least 16 s and at least the end of
\* every clip of the collection; with no clips it is exactly 16 s.
C17_ProjectDuration ==
  /\ isFinite(project.duration)
  /\ project.duration.v >= MinProjectDuration
  /\ \A c \in DOMAIN clips : project.duration.v >= clips[c].startTime + clips[c].duration
  /\ DOMAIN clips = {} => project.duration.v = MinProjectDuration

\* C18: every clip's startTime is at least 0, whatever start time the
\* handlers were called with.
C18_StartTimeNonNegative ==
  \A c \in DOMAIN clips : clips[c].startTime >= 0

\* the sixteenth-note grid duration at the project's bpm
ProjectGrid == getGridDuration(Num(ProjectBpm), Num(SIXTEENTH)).v

\* C19: after an operation that changes a clip's startTime (a drag or a
\* nudge through UPDATE_CLIP, a move through MOVE_CLIP_TO_TRACK) the stored
\* startTime is a whole multiple of the sixteenth-note grid duration.
C19_StartTimeOnGrid ==
  lastAction.type \in {"UPDATE_CLIP", "MOVE_CLIP_TO_TRACK"} =>
    \A c \in DOMAIN clips : clips[c].startTime % ProjectGrid = 0

C19_Witness ==
  /\ lastAction.type \in {"UPDATE_CLIP", "MOVE_CLIP_TO_TRACK"}
  /\ lastAction.clipId \in DOMAIN clips
  /\ clips[lastAction.clipId].startTime = ProjectGrid


\* C25: after MOVE_CLIP_TO_TRACK of an existing clip to an existing track
\* (the clip's own track included) the clip has the target's trackId and the
\* snapped start time, the target lists it and no other track does.
C25_MoveClipToTrack ==
  lastAction.type = "MOVE_CLIP_TO_TRACK" =>
    LET clipId == lastAction.clipId
        targetTrackId == lastAction.trackId
    IN /\ clips[clipId].trackId = targetTrackId
       /\ clips[clipId].startTime =
            snapToGrid(Num(lastAction.value), Num(ProjectBpm), Num(SIXTEENTH)).v
       /\ \A t \in DOMAIN project.tracks : clipId \in project.tracks[t] <=> t = targetTrackId

\* C26: every clip's duration is above 0 and at most the native duration of
\* its decoded buffer, whatever resize was applied.
C26_DurationWithinBuffer ==
  \A c \in DOMAIN clips :
    /\ clips[c].duration > 0
    /\ clips[c].duration <= clips[c].bufferDuration

\* C28: Left Arrow moves the selected clip one sixteenth-note grid unit
\* earlier, not below 0; Right Arrow moves it one grid unit later when the
\* clip then still ends within the project duration; no other clip changes.
C28_NudgeByOneGridUnit ==
  [][\A c \in DOMAIN clips :
       LET others == \A d \in DOMAIN clips \ {c} : d \in DOMAIN clips' /\ clips'[d] = clips[d]
           later == clips[c].startTime + ProjectGrid
       IN /\ NudgeLeft(c) =>
               /\ clips'[c].startTime = Max(0, clips[c].startTime - ProjectGrid)
               /\ others
          /\ NudgeRight(c) =>
               /\ (isFinite(project.duration)
                    /\ later + clips[c].duration <= project.duration.v)
                     => clips'[c].startTime = later
               /\ others]_vars

\* C29: a file uploaded through the upload control of a track that still
\* exists when the decoder answers becomes a clip of that track, listed in
\* its clipIds, and no track is created for it.
C29_UploadLandsOnTrack ==
  [][(AudioDecodedUpdates /\ creating.control \in DOMAIN project.tracks)
       => /\ clips'[creating.clipId].trackId = creating.control
          /\ creating.clipId \in project'.tracks[creating.control]
          /\ DOMAIN project'.tracks \subseteq {t \in 1..MaxIds : t < creating.clipId}]_vars

\* C24: stopping a source that has already finished never raises out of
\* pause, stop or a rebuild: the exception is ignored, the operation
\* completes, and every other source is stopped too; the only sources left
\* playing are those the same task started in its new build.
C24_StopIgnoresFinished ==
  /\ ~out.raised
  /\ out.caught # {} =>
       \A b \in 1..MaxBuilds, c \in ClipIds :
         sources[b][c].st = "playing" =>
           /\ b = nBuilds
           /\ out.build.cause # "none"
           /\ c \in registered(World)

\* a task stopped a finished source and a source that was still to play
C24_Witness ==
  /\ out.caught # {}
  /\ \E c \in ClipIds \ out.caught : sources[nBuilds][c].st = "stopped"
  /\ registered(World) = {}

\* C27: after a seek issued while the transport is not playing, the next
\* play starts from exactly the position sought: the build of that play is
\* made at that position, its clips are scheduled relative to it, and from
\* then on the transport position, the one the engine computes from its
\* clock origin and reports, is the position sought plus the time played
\* since that start (until a pause, a stop, another seek, a wrap or the
\* end of the region).
C27_PlayFromSoughtPosition ==
  sought.played =>
    /\ out.build.cause = "play" =>
         /\ out.build.pos = sought.pos
         /\ \A c \in DOMAIN out.build.plan :
              LET clipStartSamples == secondsToSamples(allClips[c].startTime)
              IN /\ out.build.plan[c].offset =
                      samplesToSeconds(Max(0, sought.pos - clipStartSamples))
                 /\ out.build.plan[c].when - now =
                      samplesToSeconds(Max(0, clipStartSamples - sought.pos))
    /\ sought.at >= 0 =>
         /\ secondsToSamples(now - startTime) =
              sought.pos + secondsToSamples(now - sought.at)
         /\ out.report >= 0 =>
              out.report = sought.pos + secondsToSamples(now - sought.at)

C30_EngineLeavesHostData ==
  [][/\ hostTracks' = hostTracks
     /\ app'.isPlaying # app.isPlaying => (Play \/ Pause \/ Stop)
     /\ app'.isLooping # app.isLooping => ToggleLoop
     /\ app'.currentSamples # app.currentSamples =>
          \/ Stop
          \/ \E samples \in SeekTargets : Seek(samples)
          \/ out'.report = app'.currentSamples
     /\ app'.isInitialized # app.isInitialized =>
          (app'.isInitialized /\ audioContext = "none" /\ audioContext' # "none")]_vars

\* the engine has created the context, started playback and reported a position
C30_Witness ==
  /\ app.isInitialized
  /\ nBuilds >= 1
  /\ out.report > 0
  /\ app.currentSamples = out.report
  /\ hostTracks = initialTracks

C32_EndedRemovesOwnEntry ==
  \A c \in ClipIds :
    nBuilds >= 1 =>
      /\ sources[nBuilds][c].st = "ended" => c \notin registered(World)
      /\ Playing(nBuilds, c) => c \in registered(World)

\* the ended event of a stopped source of the first build arrives while the
\* second build's source of the same clip plays
C32_Witness ==
  /\ nBuilds = 2
  /\ out.ended = [build |-> 1, clip |-> "c2"]
  /\ Playing(2, "c2")
  /\ "c2" \in registered(World)

\* the engine's snapshot with the solo flags replaced by f
withSolo(w, f) ==
  [w EXCEPT !.engineProject = [t \in DOMAIN @ |-> [@[t] EXCEPT !.solo = f[t]]]]

\* C33: in every reachable state, a rebuild-and-schedule run on the engine's
\* snapshot and the same run on a snapshot that differs only in the tracks'
\* solo flags give the same mixer graph (gains and pans), the same connected
\* nodes and the same scheduled sources.
C33_SoloHasNoEffect ==
  \A f \in [DOMAIN engineProject -> BOOLEAN] :
    LET a == startContinuation(World, "play")
        b == startContinuation(withSolo(World, f), "play")
    IN /\ a.trackGraph = b.trackGraph
       /\ a.connected = b.connected
       /\ a.trackNodes = b.trackNodes
       /\ a.sources = b.sources
       /\ a.out.build = b.out.build

\* a build on a snapshot in which t1 is muted and solo and t2 is neither
C33_Witness ==
  /\ out.build.cause # "none"
  /\ DOMAIN engineProject = Tracks
  /\ engineProject["t1"].solo /\ engineProject["t1"].muted
  /\ ~engineProject["t2"].solo
  /\ trackGraph["t1"].gain = 0
  /\ trackGraph["t2"].gain = engineProject["t2"].volume

\* C34: the delivery of a position the engine reported sets no restart
\* timer. The positions the timeline is scrubbed to (SeekTargets) are never
\* reported by the engine here, so a pending position outside them is a
\* report of the engine; a step that clears `stale` is the commit whose
\* updateState effect receives it, and the external-seek branch is the only
\* code of a commit that sets a timer.
C34_OwnReportIsNoSeek ==
  [][(/\ stale /\ ~stale'
      /\ app.currentSamples \notin SeekTargets
      /\ app'.currentSamples = app.currentSamples)
       => Len(timers') <= Len(timers)]_vars

\* C35: while the transport plays on a finished build, a delivery of a
\* snapshot in which a track's muted flag or volume differs from the
\* snapshot before leaves every track's gain stage at muted ? 0 : volume of
\* the new snapshot, and makes no new build.
C35_LiveTrackGain ==
  [][(/\ state.isPlaying /\ state'.isPlaying
      /\ nBuilds >= 1 /\ calls = <<>> /\ audioContext = "running"
      /\ \E t \in DOMAIN engineProject \cap DOMAIN engineProject' :
           \/ engineProject'[t].muted # engineProject[t].muted
           \/ engineProject'[t].volume # engineProject[t].volume)
       => /\ nBuilds' = nBuilds
          /\ \A t \in DOMAIN engineProject' \cap DOMAIN trackGraph' :
               trackGraph'[t].gain = (IF engineProject'[t].muted THEN 0
                                      ELSE engineProject'[t].volume)]_vars

\* C36: at most one polling callback is pending in every reachable state,
\* whatever the interleaving of play, pause, wraps, seek restarts and
\* startPlayback continuations; and a callback that runs while the engine's
\* state is not Playing reports nothing, changes nothing of the host and
\* requests no further callback.
C36_OnePollingCallback ==
  /\ [](frames <= 1)
  /\ [][(Frame /\ ~state.isPlaying)
          => /\ out'.report = -1
             /\ app' = app
             /\ frames' = frames - 1
             /\ rafId' = "null"]_vars

\* a startPlayback continuation that completed after pause left sources
\* playing and a callback pending; the callback ran and gave up
C36_Witness ==
  /\ nBuilds >= 1
  /\ ~state.isPlaying
  /\ rafId = "null"
  /\ frames = 0
  /\ \E c \in ClipIds : Playing(nBuilds, c)

\* a restart after an external seek is due: the timer of updateState is set
RestartDue ==
  /\ audioContext = "running"
  /\ state.isPlaying
  /\ timers # <<>>

\* the behaviour has room for the restart: one more build, and clock time
\* for the timer to run out
RoomToRestart ==
  /\ nBuilds < MaxBuilds
  /\ now + samplesToSeconds(1280) <= samplesToSeconds(MaxClock)

\* C40: on a running context, with the engine's state Playing, polling
\* never dies: a wrap or a restart leaves a callback pending, a state with no
\* callback pending has a restart timer or a startPlayback call outstanding,
\* and when the timer of a seek restart is set a callback is pending again
\* later on (which a fair browser runs), unless the state stops being Playing.
C40_PollingResumes ==
  /\ [](out.build.cause \in {"seek", "wrap"} => (frames = 1 /\ rafId = "live"))
  /\ []((audioContext = "running" /\ state.isPlaying /\ frames = 0)
          => (timers # <<>> \/ calls # <<>>))
  /\ (RestartDue /\ RoomToRestart) ~> (frames > 0 \/ ~state.isPlaying)

\* a seek restart was carried out and a polling callback has run and
\* reported since, with the next one pending
C40_Witness ==
  /\ lastSeek.restartAt >= 0
  /\ state.isPlaying
  /\ frames = 1
  /\ out.polled.samples >= 0

\* C37: the answer of the decoder for one file adds exactly one clip to the
\* clip collection, however many handleFilesSelected calls came before: while
\* the dispatches for an answer are made, one clip has been added for it.
C37_OneClipPerFile ==
  creating.step # "idle" =>
    /\ creating.made = 1
    /\ creating.clipId \in DOMAIN clips

\* C38: in every reachable state ui.selectedClipId is null or the id of a
\* clip of the clip collection, in particular after the track that holds the
\* selected clip is removed.
C38_SelectionExists == selectedClipId = 0 \/ selectedClipId \in DOMAIN clips

\* C39: the shorten hotkey never increases the selected clip's duration: it
\* reduces it by exactly one grid unit and leaves at least one grid unit, or
\* it leaves the duration unchanged.
C39_ShortenByOneGridUnit ==
  [][ShortenClip =>
       LET before == clips[selectedClipId].duration
           after == clips'[selectedClipId].duration
       IN \/ after = before
          \/ after = before - ProjectGrid /\ after >= ProjectGrid]_vars

====
